---- MODULE Spec2Model ----
(***************************************************************************)
(* Model of the OCR extractor: the extraction service                     *)
(* (app/api/extract-text/route.ts: the POST handler with its              *)
(* retry/fallback loop callModelWithRetries, and the pure confidence      *)
(* heuristic calculateConfidence) and the page that calls it              *)
(* (app/page.tsx: file selection, the image normalizer                    *)
(* preprocessToPngDataUrl, extractText and its progress timer).           *)
(*                                                                        *)
(* JavaScript strings are sequences of one-character strings.  Error      *)
(* messages are sequences of words, so that String.includes is a real     *)
(* sub-sequence search.  A number with a fractional part is an exact      *)
(* rational [num, den]; the rounding of binary floating point is not      *)
(* modelled.                                                              *)
(***************************************************************************)
EXTENDS Integers, Sequences, FiniteSets, TLC

VARIABLES
    pc,          \* where POST is suspended: idle, formData, arrayBuffer,
                 \* generateText, sleep, done
    request,     \* the NextRequest being served
    image,       \* formData.get("image")
    dataUrl,     \* the data URL handed to the model
    modelId,     \* argument of the running callModelWithRetries
    attempt,     \* its loop counter
    lastError,   \* its lastError
    usedModel,   \* POST's usedModel
    text,        \* POST's text
    primaryErr,  \* the value caught from the primary invocation
    error,       \* the value caught by POST's outer catch
    inflight,    \* generateText calls that have not settled
    log,         \* the model calls, their outcomes and the sleeps, in order
    responses,   \* the responses POST has returned
    cPrev,       \* calculateConfidence harness: previous input and result
    cCur,        \* calculateConfidence harness: current input and result
    credential,  \* whether GROQ_API_KEY is set in the service's environment
    nSrc,        \* normalizer harness: naturalWidth and naturalHeight
    nOut,        \* normalizer harness: the canvas size computed from them
    selectedFile,        \* page state (useState)
    previewUrl,
    extractedText,
    isProcessing,
    confidence,
    processingProgress,
    progressMessage,
    extractions, \* the invocations of extractText: where each is suspended,
                 \* its closure (selectedFile, previewUrl, idx, t)
    lastEvent    \* the handler or callback that ran last on the page

vars == <<pc, request, image, dataUrl, modelId, attempt, lastError, usedModel,
          text, primaryErr, error, inflight, log, responses, cPrev, cCur,
          credential, nSrc, nOut, selectedFile, previewUrl, extractedText,
          isProcessing, confidence, processingProgress, progressMessage,
          extractions, lastEvent>>

serverVars == <<pc, request, image, dataUrl, modelId, attempt, lastError,
                usedModel, text, primaryErr, error, inflight, log, responses,
                credential>>

confVars == <<cPrev, cCur>>

normVars == <<nSrc, nOut>>

clientVars == <<selectedFile, previewUrl, extractedText, isProcessing, confidence,
                processingProgress, progressMessage, extractions, lastEvent>>

----------------------------------------------------------------------------
(* JavaScript values *)

Null == [kind |-> "null"]

Str(s) == [kind |-> "string", s |-> s]

Err(m) == [kind |-> "Error", message |-> m]

\* JavaScript truthiness of the values the handler tests with ! and ||
Truthy(v) ==
    CASE v.kind = "null" -> FALSE
      [] v.kind = "string" -> v.s # <<>>
      [] OTHER -> TRUE

Max(a, b) == IF a >= b THEN a ELSE b

Min(a, b) == IF a <= b THEN a ELSE b

\* exact rationals
Rat(n, d) == [num |-> n, den |-> d]

RatLeq(a, b) == a.num * b.den <= b.num * a.den

RatEq(a, b) == a.num * b.den = b.num * a.den

----------------------------------------------------------------------------
(* Strings *)

Whitespace == {" ", "\n", "\t", "\r"}

IsSpace(c) == c \in Whitespace

\* String.prototype.trim: the leading and the trailing whitespace is cut
trim(s) ==
    LET lead == Cardinality({i \in 1..Len(s) : \A j \in 1..i : IsSpace(s[j])})
        trail == Cardinality({i \in 1..Len(s) : \A j \in i..Len(s) : IsSpace(s[j])})
    IN  IF lead = Len(s) THEN <<>> ELSE SubSeq(s, lead + 1, Len(s) - trail)

\* String.prototype.startsWith
startsWith(s, prefix) ==
    /\ Len(s) >= Len(prefix)
    /\ SubSeq(s, 1, Len(prefix)) = prefix

\* String.prototype.includes
includes(s, part) ==
    \E i \in 1..(Len(s) - Len(part) + 1) : SubSeq(s, i, i + Len(part) - 1) = part

\* String.prototype.split on s[lo..hi], found by halving the range.  The
\* separators are the characters of seps, or with runs the maximal runs of
\* them.  The last piece of the left half and the first of the right half
\* are one piece; a run that crosses the middle is one separator.
RECURSIVE SplitRange(_, _, _, _, _)
SplitRange(s, lo, hi, seps, runs) ==
    IF lo > hi THEN <<<<>>>>
    ELSE IF lo = hi THEN (IF s[lo] \in seps THEN <<<<>>, <<>>>> ELSE <<<<s[lo]>>>>)
    ELSE LET mid == (lo + hi) \div 2
             left == SplitRange(s, lo, mid, seps, runs)
             right == SplitRange(s, mid + 1, hi, seps, runs)
         IN  IF runs /\ s[mid] \in seps /\ s[mid + 1] \in seps
             THEN SubSeq(left, 1, Len(left) - 1) \o SubSeq(right, 2, Len(right))
             ELSE SubSeq(left, 1, Len(left) - 1)
                      \o <<left[Len(left)] \o right[1]>>
                      \o SubSeq(right, 2, Len(right))

\* s.split("\n"): the pieces between consecutive newlines
SplitNewline(s) == SplitRange(s, 1, Len(s), {"\n"}, FALSE)

\* s.split(/\s+/): the pieces between maximal runs of whitespace
SplitSpaces(s) == SplitRange(s, 1, Len(s), Whitespace, TRUE)

NonEmpty(piece) == piece # <<>>

NonBlank(piece) == Len(trim(piece)) > 0

ToLower(c) ==
    CASE c = "I" -> "i"
      [] c = "L" -> "l"
      [] c = "E" -> "e"
      [] c = "G" -> "g"
      [] c = "B" -> "b"
      [] c = "N" -> "n"
      [] OTHER -> c

Marker == <<"[", "i", "l", "l", "e", "g", "i", "b", "l", "e", "]">>

\* (text.match(/\[illegible\]/gi) || []).length: the pattern cannot overlap
\* itself, so the matches found left to right are all its occurrences
MatchCount(s) ==
    Cardinality({i \in 1..(Len(s) - Len(Marker) + 1) :
                    \A k \in 1..Len(Marker) : ToLower(s[i + k - 1]) = Marker[k]})

Sentinel ==
    <<"N", "o", " ", "t", "e", "x", "t", " ",
      "d", "e", "t", "e", "c", "t", "e", "d">>

\* text.split(/\s+/).filter(Boolean).length
wordsOf(s) ==
    LET pieces == SplitSpaces(s)
    IN  Cardinality({i \in 1..Len(pieces) : NonEmpty(pieces[i])})

\* text.split("\n").filter((l) => l.trim().length > 0).length
linesOf(s) ==
    LET pieces == SplitNewline(s)
    IN  Cardinality({i \in 1..Len(pieces) : NonBlank(pieces[i])})

illegibleOf(s) == MatchCount(s)

\* mutant: the test for a text of whitespace only is missing
calculateConfidenceNoBlankTest(s) ==
    IF s = <<>> \/ s = Sentinel THEN Rat(5, 100)
    ELSE LET words == wordsOf(s)
             lines == linesOf(s)
             c0 == 25
             c1 == IF Len(s) > 40 THEN c0 + 15 ELSE c0
             c2 == IF Len(s) > 200 THEN c1 + 10 ELSE c1
             c3 == IF lines > 2 THEN c2 + 8 ELSE c2
             c4 == IF words > 20 THEN c3 + 7 ELSE c3
             illegible == illegibleOf(s)
             w == Max(words, 1)
             c5 == IF illegible > 0
                   THEN c4 * 2 * w - Min(20 * 2 * w, illegible * 100)
                   ELSE c4 * 2 * w
         IN  Rat(Min(98 * 2 * w, Max(5 * 2 * w, c5)), 200 * w)

\* mutant: more than 20 words lower the score instead of raising it
calculateConfidenceWordsLower(s) ==
    IF s = <<>> \/ s = Sentinel \/ Len(trim(s)) = 0 THEN Rat(5, 100)
    ELSE LET words == wordsOf(s)
             lines == linesOf(s)
             c0 == 25
             c1 == IF Len(s) > 40 THEN c0 + 15 ELSE c0
             c2 == IF Len(s) > 200 THEN c1 + 10 ELSE c1
             c3 == IF lines > 2 THEN c2 + 8 ELSE c2
             c4 == IF words > 20 THEN c3 - 7 ELSE c3
             illegible == illegibleOf(s)
             w == Max(words, 1)
             c5 == IF illegible > 0
                   THEN c4 * 2 * w - Min(20 * 2 * w, illegible * 100)
                   ELSE c4 * 2 * w
         IN  Rat(Min(98 * 2 * w, Max(5 * 2 * w, c5)), 200 * w)

\* mutant: the illegible penalty is added instead of subtracted
calculateConfidencePenaltyAdded(s) ==
    IF s = <<>> \/ s = Sentinel \/ Len(trim(s)) = 0 THEN Rat(5, 100)
    ELSE LET words == wordsOf(s)
             lines == linesOf(s)
             c0 == 25
             c1 == IF Len(s) > 40 THEN c0 + 15 ELSE c0
             c2 == IF Len(s) > 200 THEN c1 + 10 ELSE c1
             c3 == IF lines > 2 THEN c2 + 8 ELSE c2
             c4 == IF words > 20 THEN c3 + 7 ELSE c3
             illegible == illegibleOf(s)
             w == Max(words, 1)
             c5 == IF illegible > 0
                   THEN c4 * 2 * w + Min(20 * 2 * w, illegible * 100)
                   ELSE c4 * 2 * w
         IN  Rat(Min(98 * 2 * w, Max(5 * 2 * w, c5)), 200 * w)

\* calculateConfidence, in units of 1/(200 * max(words, 1)) so that the
\* illegible penalty (illegible / max(words, 1)) * 0.5 is exact
calculateConfidence(s) ==
    IF s = <<>> \/ s = Sentinel \/ Len(trim(s)) = 0 THEN Rat(5, 100)
    ELSE LET words == wordsOf(s)
             lines == linesOf(s)
             c0 == 25
             c1 == IF Len(s) > 40 THEN c0 + 15 ELSE c0
             c2 == IF Len(s) > 200 THEN c1 + 10 ELSE c1
             c3 == IF lines > 2 THEN c2 + 8 ELSE c2
             c4 == IF words > 20 THEN c3 + 7 ELSE c3
             illegible == illegibleOf(s)
             w == Max(words, 1)
             c5 == IF illegible > 0
                   THEN c4 * 2 * w - Min(20 * 2 * w, illegible * 100)
                   ELSE c4 * 2 * w
         IN  Rat(Min(98 * 2 * w, Max(5 * 2 * w, c5)), 200 * w)

----------------------------------------------------------------------------
(* The service: constants and the inputs of the environment *)

PRIMARY_MODEL == "meta-llama/llama-4-maverick-17b-128e-instruct"

FALLBACK_MODEL == "meta-llama/llama-4-scout-17b-16e-instruct"

maxAttempts == 3

File(type) == [kind |-> "File", type |-> type, bytes |-> "bytes"]

ImagePng == <<"image", "/", "png">>

TextPlain == <<"text", "/", "plain">>

\* request bodies: not a form at all, a form without `image`, a form whose
\* `image` is a file of some declared type (possibly none)
Requests ==
    {[body |-> "malformed", image |-> Null]}
        \cup {[body |-> "form", image |-> f] :
                f \in {Null, File(ImagePng), File(<<>>), File(TextPlain)}}

\* what generateText can resolve to
ModelTexts ==
    {Null, Str(<<>>), Str(<<" ", "\n">>), Str(<<"h", "i">>),
     Str(<<" ", "h", "i", "\n">>), Str(Sentinel), Str(Sentinel \o <<"\n">>)}

\* what generateText can reject with
ModelErrors ==
    {Err(<<"Rate", "limit", "reached">>),
     Err(<<"Request", "timed", "out">>),
     Err(<<"The", "model", "does", "not", "exist">>),
     Err(<<"You", "do", "not", "have", "access", "to", "it">>),
     Null}

\* what generateText rejects with when the provider finds no API key
MissingApiKey == Err(<<"Groq", "API", "key", "is", "missing">>)

\* the rejections possible in an environment: without a key the provider
\* is never reached, with one it answers or fails on its own account
RejectionsWith(key) == IF key THEN ModelErrors ELSE {MissingApiKey}

\* typeof err?.message === "string" ? err.message : String(err)
MessageOf(err) == IF err.kind = "Error" THEN err.message ELSE <<"null">>

\* mutant: the second permanent phrase is not tested
IsPermanentOnlyMissing(message) == includes(message, <<"does", "not", "exist">>)

\* the test that ends the retry loop of a model
IsPermanent(message) ==
    \/ includes(message, <<"does", "not", "exist">>)
    \/ includes(message, <<"do", "not", "have", "access">>)

\* image.type || "image/png"
MimeTypeOf(file) == IF file.type # <<>> THEN file.type ELSE ImagePng

DataUrlOf(file) == <<"data:">> \o MimeTypeOf(file) \o <<";base64,", file.bytes>>

CallEvent(m, k) == [ev |-> "call", model |-> m, attempt |-> k]

ReturnEvent(m, k, t) == [ev |-> "return", model |-> m, attempt |-> k, text |-> t]

ThrowEvent(m, k, e) == [ev |-> "throw", model |-> m, attempt |-> k, err |-> e]

SleepEvent(m, k, ms) == [ev |-> "sleep", model |-> m, attempt |-> k, ms |-> ms]

\* mutant: the missing image is reported through the generic failure
BadRequestAsFailure ==
    [status |-> 500,
     body |-> [error |-> <<"Failed", "to", "extract", "text", "from", "image">>,
               details |-> <<"No", "image", "provided">>]]

BadRequest == [status |-> 400, body |-> [error |-> <<"No", "image", "provided">>]]

\* mutant: the failure response carries a (partial) text
FailureWithText(e) ==
    [status |-> 500,
     body |-> [error |-> <<"Failed", "to", "extract", "text", "from", "image">>,
               details |-> IF e.kind = "Error" THEN e.message
                           ELSE <<"Unknown", "error">>,
               text |-> <<>>]]

\* the outer catch's response
Failure(e) ==
    [status |-> 500,
     body |-> [error |-> <<"Failed", "to", "extract", "text", "from", "image">>,
               details |-> IF e.kind = "Error" THEN e.message
                           ELSE <<"Unknown", "error">>]]

Success(t) ==
    [status |-> 200,
     body |-> [text |-> trim(t), confidence |-> calculateConfidence(t),
               success |-> TRUE]]

----------------------------------------------------------------------------
(* The service: POST and callModelWithRetries *)

InitServer ==
    /\ pc = "idle"
    /\ request = Null
    /\ image = Null
    /\ dataUrl = <<>>
    /\ modelId = ""
    /\ attempt = 0
    /\ lastError = Null
    /\ usedModel = ""
    /\ text = Null
    /\ primaryErr = Null
    /\ error = Null
    /\ inflight = 0
    /\ log = <<>>
    /\ responses = <<>>

\* the outer catch: build the 500 response and return it
Catch(e) ==
    /\ error' = e
    /\ responses' = Append(responses, Failure(e))
    /\ pc' = "done"

\* callModelWithRetries(m) is entered or goes round its loop: generateText
\* is called for attempt k and awaited
StartCall(m, k, lg, settled) ==
    /\ modelId' = m
    /\ attempt' = k
    /\ log' = Append(lg, CallEvent(m, k))
    /\ inflight' = settled + 1
    /\ pc' = "generateText"

\* mutant: the outer catch gets fallbackErr || primaryErr
RetriesThrowFallbackFirst(e, lg, settled) ==
    IF modelId = PRIMARY_MODEL
    THEN /\ primaryErr' = e
         /\ usedModel' = FALLBACK_MODEL
         /\ lastError' = Null
         /\ StartCall(FALLBACK_MODEL, 1, lg, settled)
         /\ UNCHANGED <<error, responses>>
    ELSE /\ lastError' = e
         /\ log' = lg
         /\ inflight' = settled
         /\ Catch(IF Truthy(e) THEN e ELSE primaryErr)
         /\ UNCHANGED <<primaryErr, usedModel, modelId, attempt>>

\* callModelWithRetries ends with `throw lastError`: the primary's is caught
\* and the fallback is entered, the fallback's reaches the outer catch as
\* primaryErr || fallbackErr
RetriesThrow(e, lg, settled) ==
    IF modelId = PRIMARY_MODEL
    THEN /\ primaryErr' = e
         /\ usedModel' = FALLBACK_MODEL
         /\ lastError' = Null
         /\ StartCall(FALLBACK_MODEL, 1, lg, settled)
         /\ UNCHANGED <<error, responses>>
    ELSE /\ lastError' = e
         /\ log' = lg
         /\ inflight' = settled
         /\ Catch(IF Truthy(primaryErr) THEN primaryErr ELSE e)
         /\ UNCHANGED <<primaryErr, usedModel, modelId, attempt>>

\* a request arrives; request.formData() is awaited
POST(req) ==
    /\ pc = "idle"
    /\ request' = req
    /\ pc' = "formData"
    /\ UNCHANGED <<image, dataUrl, modelId, attempt, lastError, usedModel, text,
                   primaryErr, error, inflight, log, responses>>
    /\ UNCHANGED <<credential, confVars, normVars, clientVars>>

\* formData() settles; without an image the handler answers 400, otherwise
\* image.arrayBuffer() is awaited
FormData ==
    /\ pc = "formData"
    /\ IF request.body = "malformed"
       THEN /\ Catch(Err(<<"Failed", "to", "parse", "body", "as", "FormData">>))
            /\ UNCHANGED image
       ELSE /\ image' = request.image
            /\ IF request.image.kind = "null"
               THEN /\ responses' = Append(responses, BadRequest)
                    /\ pc' = "done"
               ELSE /\ pc' = "arrayBuffer"
                    /\ UNCHANGED responses
            /\ UNCHANGED error
    /\ UNCHANGED <<request, dataUrl, modelId, attempt, lastError, usedModel, text,
                   primaryErr, inflight, log>>
    /\ UNCHANGED <<credential, confVars, normVars, clientVars>>

\* the bytes arrive; the data URL is built and the primary model is entered
ArrayBuffer ==
    /\ pc = "arrayBuffer"
    /\ dataUrl' = DataUrlOf(image)
    /\ usedModel' = PRIMARY_MODEL
    /\ text' = Null
    /\ lastError' = Null
    /\ StartCall(PRIMARY_MODEL, 1, log, inflight)
    /\ UNCHANGED <<request, image, primaryErr, error, responses>>
    /\ UNCHANGED <<credential, confVars, normVars, clientVars>>

\* mutant: the loop has no `return text`, it goes round after a resolved call
GenerateTextReturnsNoReturn(t) ==
    /\ pc = "generateText"
    /\ credential
    /\ text' = t
    /\ IF attempt + 1 <= maxAttempts
       THEN /\ StartCall(modelId, attempt + 1,
                         Append(log, ReturnEvent(modelId, attempt, t)), inflight - 1)
            /\ UNCHANGED <<error, responses>>
       ELSE /\ log' = Append(log, ReturnEvent(modelId, attempt, t))
            /\ inflight' = inflight - 1
            /\ UNCHANGED <<modelId, attempt>>
            /\ IF ~Truthy(t)
               THEN Catch(Err(<<"Groq", "returned", "empty", "response">>))
               ELSE /\ responses' = Append(responses, Success(t.s))
                    /\ pc' = "done"
                    /\ UNCHANGED error
    /\ UNCHANGED <<request, image, dataUrl, lastError, usedModel, primaryErr>>
    /\ UNCHANGED <<credential, confVars, normVars, clientVars>>

\* generateText resolves: callModelWithRetries returns its text, whatever it
\* is, and POST answers from it
GenerateTextReturns(t) ==
    /\ pc = "generateText"
    /\ credential
    /\ text' = t
    /\ log' = Append(log, ReturnEvent(modelId, attempt, t))
    /\ inflight' = inflight - 1
    /\ IF ~Truthy(t)
       THEN Catch(Err(<<"Groq", "returned", "empty", "response">>))
       ELSE /\ responses' = Append(responses, Success(t.s))
            /\ pc' = "done"
            /\ UNCHANGED error
    /\ UNCHANGED <<request, image, dataUrl, modelId, attempt, lastError,
                   usedModel, primaryErr>>
    /\ UNCHANGED <<credential, confVars, normVars, clientVars>>

\* mutant: lastError keeps the first value caught instead of the latest
GenerateTextThrowsKeepsFirst(e) ==
    /\ pc = "generateText"
    /\ e \in RejectionsWith(credential)
    /\ LET lg == Append(log, ThrowEvent(modelId, attempt, e))
           kept == IF Truthy(lastError) THEN lastError ELSE e
       IN  IF IsPermanent(MessageOf(e))
           THEN RetriesThrow(kept, lg, inflight - 1)
           ELSE /\ lastError' = kept
                /\ log' = Append(lg, SleepEvent(modelId, attempt, 300 * attempt))
                /\ inflight' = inflight - 1
                /\ pc' = "sleep"
                /\ UNCHANGED <<modelId, attempt, usedModel, primaryErr, error,
                               responses>>
    /\ UNCHANGED <<request, image, dataUrl, text>>
    /\ UNCHANGED <<credential, confVars, normVars, clientVars>>

\* generateText rejects: a permanent message ends the loop at once, any
\* other is followed by the sleep of 300 ms x attempt
GenerateTextThrows(e) ==
    /\ pc = "generateText"
    /\ e \in RejectionsWith(credential)
    /\ LET lg == Append(log, ThrowEvent(modelId, attempt, e))
       IN  IF IsPermanent(MessageOf(e))
           THEN RetriesThrow(e, lg, inflight - 1)
           ELSE /\ lastError' = e
                /\ log' = Append(lg, SleepEvent(modelId, attempt, 300 * attempt))
                /\ inflight' = inflight - 1
                /\ pc' = "sleep"
                /\ UNCHANGED <<modelId, attempt, usedModel, primaryErr, error,
                               responses>>
    /\ UNCHANGED <<request, image, dataUrl, text>>
    /\ UNCHANGED <<credential, confVars, normVars, clientVars>>

\* mutant: the loop test lets one more attempt through
SleepResolvedOneMore ==
    /\ pc = "sleep"
    /\ IF attempt <= maxAttempts
       THEN /\ StartCall(modelId, attempt + 1, log, inflight)
            /\ UNCHANGED <<lastError, usedModel, primaryErr, error, responses>>
       ELSE RetriesThrow(lastError, log, inflight)
    /\ UNCHANGED <<request, image, dataUrl, text>>
    /\ UNCHANGED <<credential, confVars, normVars, clientVars>>

\* the sleep ends: the loop goes round, or is over and lastError is thrown
SleepResolved ==
    /\ pc = "sleep"
    /\ IF attempt + 1 <= maxAttempts
       THEN /\ StartCall(modelId, attempt + 1, log, inflight)
            /\ UNCHANGED <<lastError, usedModel, primaryErr, error, responses>>
       ELSE RetriesThrow(lastError, log, inflight)
    /\ UNCHANGED <<request, image, dataUrl, text>>
    /\ UNCHANGED <<credential, confVars, normVars, clientVars>>

\* the service's environment: the key is set or it is not
InitEnvironment == credential \in BOOLEAN

InitConfIdle ==
    /\ cPrev = Null
    /\ cCur = Null

InitNormIdle ==
    /\ nSrc = Null
    /\ nOut = Null

\* the page as first rendered (the useState initial values), no
\* extractText invoked yet
InitClient ==
    /\ selectedFile = Null
    /\ previewUrl = Null
    /\ extractedText = <<>>
    /\ isProcessing = FALSE
    /\ confidence = Null
    /\ processingProgress = 0
    /\ progressMessage = <<>>
    /\ extractions = <<>>
    /\ lastEvent = "render"

Init == InitServer /\ InitEnvironment /\ InitConfIdle /\ InitNormIdle /\ InitClient

Next ==
    \/ \E req \in Requests : POST(req)
    \/ FormData
    \/ ArrayBuffer
    \/ \E t \in ModelTexts : GenerateTextReturns(t)
    \/ \E e \in ModelErrors \cup {MissingApiKey} : GenerateTextThrows(e)
    \/ SleepResolved

Spec == Init /\ [][Next]_vars

\* the steps of a request in progress: every promise POST awaits (the form
\* data, the bytes, a model call, a sleep) settles
Settle ==
    \/ FormData
    \/ ArrayBuffer
    \/ \E t \in ModelTexts : GenerateTextReturns(t)
    \/ \E e \in ModelErrors \cup {MissingApiKey} : GenerateTextThrows(e)
    \/ SleepResolved

SpecFair == Init /\ [][Next]_vars /\ WF_vars(Settle)

----------------------------------------------------------------------------
(* calculateConfidence on its own: inputs drawn from a bounded set of texts, *)
(* evaluated one after the other, the first kept for comparison              *)

MaxReps == 22

SmallReps == 6

\* how often a piece is repeated: a few times, and often enough to pass the
\* thresholds of 20 words and of 200 characters
RepCounts == (0..SmallReps) \cup ((MaxReps - 2)..MaxReps)

RECURSIVE Rep(_, _)
Rep(unit, n) == IF n = 0 THEN <<>> ELSE unit \o Rep(unit, n - 1)

LongWord == <<"x", "x", "x", "x", "x", "x", "x", "x", "x">>

\* the pieces the input texts repeat: a short word, a one-word line, a word
\* of seven and one of ten characters (with the blank), twenty characters
\* without a break, an empty line, an illegible marker, three words
\* followed by an upper-case marker, and seven long words followed by a
\* marker
Units ==
    {<<"x", " ">>,
     <<"x", "\n">>,
     <<"x", "x", "x", "x", "x", "x", " ">>,
     LongWord \o <<" ">>,
     LongWord \o LongWord \o <<"x", "x">>,
     <<"\n">>,
     Marker \o <<" ">>,
     <<"x", " ", "x", " ", "x", " ">>
         \o <<"[", "I", "L", "L", "E", "G", "I", "B", "L", "E", "]", " ">>,
     Rep(LongWord \o <<" ">>, 7) \o Marker \o <<" ">>}

ConfInputs ==
    {Rep(u, n) : u \in Units, n \in RepCounts}
        \cup {Sentinel, Sentinel \o <<"\n">>, <<" ">> \o Sentinel, <<"x">>}

Pending(s) == [text |-> s, result |-> Null]

InitConf ==
    /\ InitServer
    /\ credential = TRUE
    /\ InitNormIdle
    /\ InitClient
    /\ cPrev = Null
    /\ cCur \in {Pending(s) : s \in ConfInputs}

\* the function is applied to the current input
Calculate ==
    /\ cCur.result = Null
    /\ cCur' = [cCur EXCEPT !.result = calculateConfidence(cCur.text)]
    /\ UNCHANGED cPrev
    /\ UNCHANGED <<serverVars, normVars, clientVars>>

\* a second input arrives, the first is kept with its result
Supply(s) ==
    /\ cPrev = Null
    /\ cCur.result # Null
    /\ cPrev' = cCur
    /\ cCur' = Pending(s)
    /\ UNCHANGED <<serverVars, normVars, clientVars>>

NextConf ==
    \/ Calculate
    \/ \E s \in ConfInputs : Supply(s)

SpecConf == InitConf /\ [][NextConf]_vars

----------------------------------------------------------------------------
(* The image normalizer preprocessToPngDataUrl: the size of the canvas the  *)
(* image is drawn on, computed when the image has loaded                    *)

maxDim == 2000

\* Math.round(n / d) for n >= 0 and d > 0: halves go up
Round(n, d) == (2 * n + d) \div (2 * d)

\* mutant: the scale is not capped at 1
ScaledSizeUpscales(W, H) ==
    LET scale == Rat(maxDim, Max(W, H))
    IN  [w |-> Round(W * scale.num, scale.den),
         h |-> Round(H * scale.num, scale.den)]

\* scale = Math.min(1, maxDim / Math.max(W, H)); w = Math.round(W * scale),
\* h = Math.round(H * scale)
ScaledSize(W, H) ==
    LET ratio == Rat(maxDim, Max(W, H))
        scale == IF RatLeq(Rat(1, 1), ratio) THEN Rat(1, 1) ELSE ratio
    IN  [w |-> Round(W * scale.num, scale.den),
         h |-> Round(H * scale.num, scale.den)]

SmallSide == 8

MaxSide == 4001

\* widths and heights of decoded images: tiny ones, ones around the cap
\* and ones up to twice the cap and beyond
Sides ==
    (1..SmallSide)
        \cup {maxDim \div 2, maxDim - 1, maxDim, maxDim + 1,
              maxDim + maxDim \div 2, 2 * maxDim, MaxSide}

ImageSizes == {[w |-> W, h |-> H] : W \in Sides, H \in Sides}

InitNorm ==
    /\ InitServer
    /\ credential = TRUE
    /\ InitConfIdle
    /\ InitClient
    /\ nSrc \in ImageSizes
    /\ nOut = Null

\* img.onload: the canvas gets its size
OnLoad ==
    /\ nSrc # Null
    /\ nOut = Null
    /\ nOut' = ScaledSize(nSrc.w, nSrc.h)
    /\ UNCHANGED nSrc
    /\ UNCHANGED <<serverVars, confVars, clientVars>>

\* the normalizer is called with another image
Preprocess(size) ==
    /\ nOut # Null
    /\ nSrc' = size
    /\ nOut' = Null
    /\ UNCHANGED <<serverVars, confVars, clientVars>>

NextNorm ==
    \/ OnLoad
    \/ \E size \in ImageSizes : Preprocess(size)

SpecNorm == InitNorm /\ [][NextNorm]_vars

----------------------------------------------------------------------------
(* The page: file selection, extractText and its progress timer.  An        *)
(* invocation of extractText is a record of extractions: where it is        *)
(* suspended (at) and what its closure holds.                               *)

MaxExtractions == 2

ImageJpeg == <<"image", "/", "jpeg">>

\* a file the user picks: its name, its declared type, and the size of the
\* picture its content decodes to (Null when the browser cannot decode it)
UserFile(base, ext, type, picture) ==
    [kind |-> "File", name |-> <<base, ext>>, type |-> type, picture |-> picture]

UserFiles ==
    {UserFile("scan", "png", ImagePng, [w |-> 2 * maxDim, h |-> maxDim]),
     UserFile("photo", "jpeg", ImageJpeg, [w |-> 800, h |-> 600]),
     UserFile("broken", "png", ImagePng, Null),
     UserFile("notes", "txt", TextPlain, Null)}

\* URL.createObjectURL(file)
ObjectUrl(file) == [kind |-> "url", of |-> file]

\* what the service can answer to the page's request
ServiceResponses ==
    {Success(<<"h", "i">>), Success(<<" ", "\n">>),
     Failure(Err(<<"Request", "timed", "out">>))}

\* res.ok
Ok(res) == res.status >= 200 /\ res.status <= 299

\* the ellipsis character of the messages is written as three dots
stages ==
    <<[p |-> 20, m |-> "Optimizing image..."],
      [p |-> 55, m |-> "Analyzing text regions..."],
      [p |-> 85, m |-> "Transcribing text..."]>>

\* an invocation of extractText that has just set its timer
Started(file, url) ==
    [at |-> IF url # Null THEN "preprocess" ELSE "fetch",
     selectedFile |-> file, previewUrl |-> url, fileToSend |-> file,
     idx |-> 0, t |-> TRUE, canvas |-> Null, res |-> Null]

\* mutant: the finally block does not clear the interval
EndedTimerKept(run) ==
    [at |-> "ended", selectedFile |-> Null, previewUrl |-> Null,
     fileToSend |-> Null, idx |-> run.idx, t |-> TRUE, canvas |-> Null,
     res |-> Null]

\* an invocation that has returned: clearInterval(t) was called, the closure
\* is dropped (idx is kept, nothing reads it any more)
Ended(run) ==
    [at |-> "ended", selectedFile |-> Null, previewUrl |-> Null,
     fileToSend |-> Null, idx |-> run.idx, t |-> FALSE, canvas |-> Null,
     res |-> Null]

\* the six setters both selection handlers call
Select(file) ==
    /\ selectedFile' = file
    /\ previewUrl' = ObjectUrl(file)
    /\ extractedText' = <<>>
    /\ confidence' = Null
    /\ processingProgress' = 0
    /\ progressMessage' = ""

handleFileSelect(file) ==
    /\ lastEvent' = "handleFileSelect"
    /\ IF file = Null \/ ~startsWith(file.type, <<"image", "/">>)
       THEN UNCHANGED <<selectedFile, previewUrl, extractedText, confidence,
                        processingProgress, progressMessage>>
       ELSE Select(file)
    /\ UNCHANGED <<isProcessing, extractions>>
    /\ UNCHANGED <<serverVars, confVars, normVars>>

handleDrop(file) ==
    /\ lastEvent' = "handleDrop"
    /\ IF file # Null /\ startsWith(file.type, <<"image", "/">>)
       THEN Select(file)
       ELSE UNCHANGED <<selectedFile, previewUrl, extractedText, confidence,
                        processingProgress, progressMessage>>
    /\ UNCHANGED <<isProcessing, extractions>>
    /\ UNCHANGED <<serverVars, confVars, normVars>>

\* mutant: the button is not disabled while an extraction is processing
extractTextWhileProcessing ==
    /\ Len(extractions) < MaxExtractions
    /\ selectedFile # Null
    /\ isProcessing' = TRUE
    /\ processingProgress' = 0
    /\ progressMessage' = "Optimizing image..."
    /\ extractions' = Append(extractions, Started(selectedFile, previewUrl))
    /\ lastEvent' = "extractText"
    /\ UNCHANGED <<selectedFile, previewUrl, extractedText, confidence>>
    /\ UNCHANGED <<serverVars, confVars, normVars>>

\* a click on the button, which is disabled without a file and while
\* processing: the timer is set and the first await is reached
extractText ==
    /\ Len(extractions) < MaxExtractions
    /\ ~(selectedFile = Null \/ isProcessing)
    /\ selectedFile # Null
    /\ isProcessing' = TRUE
    /\ processingProgress' = 0
    /\ progressMessage' = "Optimizing image..."
    /\ extractions' = Append(extractions, Started(selectedFile, previewUrl))
    /\ lastEvent' = "extractText"
    /\ UNCHANGED <<selectedFile, previewUrl, extractedText, confidence>>
    /\ UNCHANGED <<serverVars, confVars, normVars>>

\* the interval's callback runs in invocation i; past the last stage it
\* changes nothing
Tick(i) ==
    /\ extractions[i].t
    /\ extractions[i].idx < Len(stages)
    /\ processingProgress' = stages[extractions[i].idx + 1].p
    /\ progressMessage' = stages[extractions[i].idx + 1].m
    /\ extractions' = [extractions EXCEPT ![i].idx = @ + 1]
    /\ lastEvent' = "tick"
    /\ UNCHANGED <<selectedFile, previewUrl, extractedText, isProcessing,
                   confidence>>
    /\ UNCHANGED <<serverVars, confVars, normVars>>

\* img.onload in invocation i: the picture is drawn on the scaled canvas and
\* preprocessToPngDataUrl resolves.  There is no img.onerror: for a file
\* that does not decode nothing ever resolves the promise.
ImgLoad(i) ==
    /\ extractions[i].at = "preprocess"
    /\ extractions[i].previewUrl.of.picture # Null
    /\ LET picture == extractions[i].previewUrl.of.picture
       IN  extractions' = [extractions EXCEPT
                             ![i].canvas = ScaledSize(picture.w, picture.h),
                             ![i].at = "blob"]
    /\ lastEvent' = "onload"
    /\ UNCHANGED <<selectedFile, previewUrl, extractedText, isProcessing,
                   confidence, processingProgress, progressMessage>>
    /\ UNCHANGED <<serverVars, confVars, normVars>>

\* the canvas's data URL is read back as a blob; the PNG file is built and
\* posted to the service
BlobRead(i) ==
    /\ extractions[i].at = "blob"
    /\ extractions' = [extractions EXCEPT
                         ![i].fileToSend =
                             UserFile(extractions[i].selectedFile.name[1], "png",
                                      ImagePng, extractions[i].canvas),
                         ![i].at = "fetch"]
    /\ lastEvent' = "blob"
    /\ UNCHANGED <<selectedFile, previewUrl, extractedText, isProcessing,
                   confidence, processingProgress, progressMessage>>
    /\ UNCHANGED <<serverVars, confVars, normVars>>

\* the catch and finally blocks of invocation i
Failed(i) ==
    /\ processingProgress' = 0
    /\ progressMessage' = ""
    /\ isProcessing' = FALSE
    /\ extractions' = [extractions EXCEPT ![i] = Ended(extractions[i])]
    /\ lastEvent' = "Extraction failed"
    /\ UNCHANGED <<selectedFile, previewUrl, extractedText, confidence>>

\* the service's response arrives: its body is read next, as JSON or, when
\* not ok, as text
Respond(i, res) ==
    /\ extractions[i].at = "fetch"
    /\ extractions' = [extractions EXCEPT
                         ![i].res = res,
                         ![i].at = IF Ok(res) THEN "json" ELSE "text"]
    /\ lastEvent' = "response"
    /\ UNCHANGED <<selectedFile, previewUrl, extractedText, isProcessing,
                   confidence, processingProgress, progressMessage>>
    /\ UNCHANGED <<serverVars, confVars, normVars>>

\* the request fails in transport
FetchRejects(i) ==
    /\ extractions[i].at = "fetch"
    /\ Failed(i)
    /\ UNCHANGED <<serverVars, confVars, normVars>>

\* the body has been read: the result is shown, or the error is thrown and
\* caught; either way the finally block runs
BodyRead(i) ==
    /\ extractions[i].at \in {"json", "text"}
    /\ IF extractions[i].at = "text"
       THEN Failed(i)
       ELSE LET data == extractions[i].res.body
            IN  /\ extractedText' = IF "text" \in DOMAIN data THEN data.text ELSE <<>>
                /\ confidence' = IF "confidence" \in DOMAIN data
                                 THEN data.confidence ELSE Null
                /\ processingProgress' = 100
                /\ progressMessage' = "Completed"
                /\ isProcessing' = FALSE
                /\ extractions' = [extractions EXCEPT ![i] = Ended(extractions[i])]
                /\ lastEvent' = "Extraction complete"
                /\ UNCHANGED <<selectedFile, previewUrl>>
    /\ UNCHANGED <<serverVars, confVars, normVars>>

\* the steps by which an invocation of extractText moves on
Advance ==
    \E i \in DOMAIN extractions :
        \/ ImgLoad(i)
        \/ BlobRead(i)
        \/ \E res \in ServiceResponses : Respond(i, res)
        \/ FetchRejects(i)
        \/ BodyRead(i)

InitPage ==
    /\ InitServer
    /\ credential = TRUE
    /\ InitConfIdle
    /\ InitNormIdle
    /\ InitClient

NextPage ==
    \/ \E file \in UserFiles \cup {Null} : handleFileSelect(file)
    \/ \E file \in UserFiles \cup {Null} : handleDrop(file)
    \/ extractText
    \/ \E i \in DOMAIN extractions : Tick(i)
    \/ \E i \in DOMAIN extractions : ImgLoad(i)
    \/ \E i \in DOMAIN extractions : BlobRead(i)
    \/ \E i \in DOMAIN extractions : \E res \in ServiceResponses : Respond(i, res)
    \/ \E i \in DOMAIN extractions : FetchRejects(i)
    \/ \E i \in DOMAIN extractions : BodyRead(i)

SpecPage == InitPage /\ [][NextPage]_vars

----------------------------------------------------------------------------
(* Reading the log *)

IsCall(e) == e.ev = "call"

IsThrow(e) == e.ev = "throw"

IsReturn(e) == e.ev = "return"

IsSleep(e) == e.ev = "sleep"

CallsIn(lg) == SelectSeq(lg, IsCall)

CallsOf(m) == Cardinality({i \in DOMAIN log : IsCall(log[i]) /\ log[i].model = m})

HasFile == pc # "idle" /\ request.body = "form" /\ request.image.kind = "File"

\* the client's test of a selected file: file.type.startsWith("image/")
IsImageLike(type) == startsWith(type, <<"image", "/">>)

\* the claims' own reading of a permanent failure: the message contains one
\* of the two phrases
SaysPermanent(message) ==
    \/ includes(message, <<"does", "not", "exist">>)
    \/ includes(message, <<"do", "not", "have", "access">>)

TransientError(e) == e.kind = "Error" /\ ~SaysPermanent(e.message)

----------------------------------------------------------------------------
(* C1: a request whose form has no `image` field is answered 400 with       *)
(* {error: "No image provided"}, and no model call is made for it.          *)
C1_NoImage400 ==
    (pc # "idle" /\ request.body = "form" /\ request.image = Null)
        => /\ log = <<>>
           /\ inflight = 0
           /\ pc \in {"formData", "done"}
           /\ pc = "done" =>
                responses = <<[status |-> 400,
                               body |-> [error |-> <<"No", "image", "provided">>]]>>

C1_Witness ==
    /\ pc = "done"
    /\ request.body = "form"
    /\ request.image = Null
    /\ Len(responses) = 1
    /\ responses[1].status = 400

(* C2: a request whose image has a MIME type that is not image-like is      *)
(* rejected with status 400, without any model call.                        *)
C2_NonImageRejected ==
    (HasFile /\ ~IsImageLike(request.image.type))
        => /\ CallsIn(log) = <<>>
           /\ pc = "done" => responses[1].status = 400

(* C3: when every primary attempt and every fallback attempt fails with a   *)
(* transient error, there are exactly 6 model calls, the 3 primary ones     *)
(* before the 3 fallback ones, and the error surfaced is the one of the     *)
(* primary's third attempt.                                                 *)
AllAttemptsFailedTransiently ==
    /\ pc = "done"
    /\ log # <<>>
    /\ \A i \in DOMAIN log :
          /\ ~IsReturn(log[i])
          /\ IsThrow(log[i]) => TransientError(log[i].err)

C3_SixCallsPrimaryError ==
    AllAttemptsFailedTransiently
        => /\ CallsIn(log) = <<CallEvent(PRIMARY_MODEL, 1), CallEvent(PRIMARY_MODEL, 2),
                                CallEvent(PRIMARY_MODEL, 3), CallEvent(FALLBACK_MODEL, 1),
                                CallEvent(FALLBACK_MODEL, 2), CallEvent(FALLBACK_MODEL, 3)>>
           /\ \E i \in DOMAIN log :
                 /\ IsThrow(log[i])
                 /\ log[i].model = PRIMARY_MODEL
                 /\ log[i].attempt = 3
                 /\ error = log[i].err
                 /\ responses =
                      <<[status |-> 500,
                         body |-> [error |-> <<"Failed", "to", "extract", "text",
                                               "from", "image">>,
                                   details |-> log[i].err.message]]>>

C3_Witness ==
    /\ AllAttemptsFailedTransiently
    /\ error = Err(<<"Request", "timed", "out">>)
    /\ \A i \in DOMAIN log :
          (IsThrow(log[i]) /\ ~(log[i].model = PRIMARY_MODEL /\ log[i].attempt = 3))
              => log[i].err = Err(<<"Rate", "limit", "reached">>)

(* C4: an attempt that fails with a message containing "does not exist" or  *)
(* "do not have access" is the last attempt on its model and no sleep       *)
(* follows it; on the primary the next thing is the fallback's first call.  *)
PermanentThrowAt(i) == IsThrow(log[i]) /\ SaysPermanent(MessageOf(log[i].err))

C4_PermanentEndsModel ==
    \A i \in DOMAIN log :
        PermanentThrowAt(i)
            => /\ \A j \in DOMAIN log :
                     (j > i /\ IsCall(log[j])) => log[j].model # log[i].model
               /\ \A j \in DOMAIN log : (j > i /\ IsSleep(log[j])) => j > i + 1
               /\ log[i].model = PRIMARY_MODEL
                     => /\ Len(log) > i
                        /\ log[i + 1] = CallEvent(FALLBACK_MODEL, 1)
               /\ log[i].model = FALLBACK_MODEL => (i = Len(log) /\ pc = "done")

C4_Witness ==
    /\ Len(log) >= 3
    /\ PermanentThrowAt(2)
    /\ log[2].model = PRIMARY_MODEL
    /\ log[3] = CallEvent(FALLBACK_MODEL, 1)
    /\ CallsOf(PRIMARY_MODEL) = 1
    /\ pc = "done"

(* C5: the attempt on which generateText resolves is the last model call    *)
(* of the request: its text is what POST holds, a resolving primary         *)
(* attempt k follows k-1 failed ones and leaves the fallback uncalled, and  *)
(* a non-empty text is answered as the success response.                    *)
C5_SuccessStops ==
    \A i \in DOMAIN log :
        IsReturn(log[i])
            => /\ i = Len(log)
               /\ pc = "done"
               /\ text = log[i].text
               /\ log[i].model = PRIMARY_MODEL
                     => /\ CallsOf(FALLBACK_MODEL) = 0
                        /\ CallsOf(PRIMARY_MODEL) = log[i].attempt
               /\ Cardinality({j \in DOMAIN log : IsReturn(log[j])}) = 1
               /\ Truthy(log[i].text)
                     => /\ Len(responses) = 1
                        /\ responses[1].status = 200
                        /\ responses[1].body.text = trim(log[i].text.s)

C5_Witness ==
    /\ pc = "done"
    /\ log # <<>>
    /\ log[Len(log)] = ReturnEvent(PRIMARY_MODEL, 3, Str(<<"h", "i">>))
    /\ CallsOf(PRIMARY_MODEL) = 3
    /\ CallsOf(FALLBACK_MODEL) = 0
    /\ responses[1].status = 200

(* C6: a call that resolves with an empty or null text is handled like a    *)
(* transient failure: the same model is tried again while attempts remain,  *)
(* and no failure response is produced before the fallback has been tried.  *)
C6_EmptyIsRetried ==
    \A i \in DOMAIN log :
        (IsReturn(log[i]) /\ ~Truthy(log[i].text))
            => /\ log[i].attempt < maxAttempts
                     => \E j \in DOMAIN log :
                           j > i /\ log[j] = CallEvent(log[i].model, log[i].attempt + 1)
               /\ (responses # <<>> /\ responses[1].status = 500)
                     => CallsOf(FALLBACK_MODEL) > 0

(* C7: a response with success = true never has an empty text.              *)
C7_SuccessNonEmpty ==
    \A i \in DOMAIN responses :
        responses[i].status = 200 => responses[i].body.text # <<>>

(* C8: a request gets exactly one response, which is either the success     *)
(* shape (200, success, text, confidence) or the failure shape (400 or      *)
(* 500, error, neither text nor confidence).                                *)
SuccessShape(r) ==
    /\ r.status = 200
    /\ DOMAIN r.body = {"text", "confidence", "success"}
    /\ r.body.success = TRUE

FailureShape(r) ==
    /\ r.status \in {400, 500}
    /\ "error" \in DOMAIN r.body
    /\ DOMAIN r.body \cap {"text", "confidence", "success"} = {}

C8_OneResponseTwoShapes ==
    /\ Len(responses) = IF pc = "done" THEN 1 ELSE 0
    /\ pc = "done" \/ ENABLED Next
    /\ \A i \in DOMAIN responses :
          SuccessShape(responses[i]) \/ FailureShape(responses[i])

C8_Witness ==
    /\ pc = "done"
    /\ Len(responses) = 1
    /\ SuccessShape(responses[1])
    /\ CallsOf(FALLBACK_MODEL) > 0

(* C9: calculateConfidence always returns a value in [0.05, 0.98], and      *)
(* exactly 0.05 for the empty text, a text of whitespace only and the       *)
(* sentinel "No text detected".                                             *)
Evaluated(c) == c # Null /\ c.result # Null

OnlyWhitespace(s) == \A i \in 1..Len(s) : IsSpace(s[i])

C9_ConfidenceRange ==
    Evaluated(cCur)
        => /\ RatLeq(Rat(5, 100), cCur.result)
           /\ RatLeq(cCur.result, Rat(98, 100))
           /\ (OnlyWhitespace(cCur.text) \/ cCur.text = Sentinel)
                 => RatEq(cCur.result, Rat(5, 100))

C9_Witness ==
    /\ Evaluated(cCur)
    /\ Len(cCur.text) > 0
    /\ OnlyWhitespace(cCur.text)
    /\ RatEq(cCur.result, Rat(5, 100))

(* C10 as stated: with no illegible marker in either text, a text that is   *)
(* at least as long, has at least as many non-blank lines and at least as   *)
(* many words never scores lower.                                           *)
Dominates(a, b) ==
    /\ Len(a) <= Len(b)
    /\ illegibleOf(a) = 0
    /\ illegibleOf(b) = 0
    /\ wordsOf(a) <= wordsOf(b)
    /\ linesOf(a) <= linesOf(b)

C10_Monotone ==
    (Evaluated(cPrev) /\ Evaluated(cCur) /\ Dominates(cPrev.text, cCur.text))
        => RatLeq(cPrev.result, cCur.result)

(* C10, amended: the same, for every larger text other than the sentinel    *)
(* "No text detected" itself (which always scores 0.05).                    *)
C10_MonotoneExceptSentinel ==
    (Evaluated(cPrev) /\ Evaluated(cCur) /\ cCur.text # Sentinel
         /\ Dominates(cPrev.text, cCur.text))
        => RatLeq(cPrev.result, cCur.result)

C10_Witness ==
    /\ Evaluated(cPrev)
    /\ Evaluated(cCur)
    /\ Dominates(cPrev.text, cCur.text)
    /\ Len(cPrev.text) <= 40
    /\ Len(cCur.text) > 200
    /\ wordsOf(cPrev.text) <= 20
    /\ wordsOf(cCur.text) > 20
    /\ ~RatLeq(cCur.result, cPrev.result)

(* C11 as stated: of two texts with the same word count, the one with more  *)
(* [illegible] occurrences never scores higher, and no score is below 0.05. *)
MoreIllegible(a, b) ==
    /\ illegibleOf(a) < illegibleOf(b)
    /\ wordsOf(a) = wordsOf(b)

C11_IllegibleNeverRaises ==
    (Evaluated(cPrev) /\ Evaluated(cCur))
        => /\ RatLeq(Rat(5, 100), cCur.result)
           /\ MoreIllegible(cPrev.text, cCur.text)
                 => RatLeq(cCur.result, cPrev.result)

(* C11, amended: the same, when the text with more [illegible] occurrences  *)
(* is not longer and has no more non-blank lines than the other, and the    *)
(* other is not the sentinel "No text detected".                            *)
C11_IllegibleNeverRaisesSameShape ==
    (Evaluated(cPrev) /\ Evaluated(cCur))
        => /\ RatLeq(Rat(5, 100), cCur.result)
           /\ (/\ MoreIllegible(cPrev.text, cCur.text)
               /\ Len(cCur.text) <= Len(cPrev.text)
               /\ linesOf(cCur.text) <= linesOf(cPrev.text)
               /\ cPrev.text # Sentinel)
                 => RatLeq(cCur.result, cPrev.result)

C11_Witness ==
    /\ Evaluated(cPrev)
    /\ Evaluated(cCur)
    /\ MoreIllegible(cPrev.text, cCur.text)
    /\ Len(cCur.text) <= Len(cPrev.text)
    /\ linesOf(cCur.text) <= linesOf(cPrev.text)
    /\ cPrev.text # Sentinel
    /\ illegibleOf(cPrev.text) > 0
    /\ ~RatLeq(cPrev.result, cCur.result)
    /\ ~RatEq(cCur.result, Rat(5, 100))

(* C16: when the primary and the fallback invocation both ended by         *)
(* throwing, whatever mix of transient and permanent failures led there,    *)
(* the response is the 500 failure whose details is the message of the      *)
(* last value the primary threw; only when that value is not an error       *)
(* object is the last value the fallback threw used instead.                *)
ThrowsOf(m) == {i \in DOMAIN log : IsThrow(log[i]) /\ log[i].model = m}

LastThrowOf(m) == log[CHOOSE i \in ThrowsOf(m) : \A j \in ThrowsOf(m) : j <= i].err

BothThrew ==
    /\ pc = "done"
    /\ ThrowsOf(FALLBACK_MODEL) # {}
    /\ \A i \in DOMAIN log : ~IsReturn(log[i])

DetailsOf(v) == IF v.kind = "Error" THEN v.message ELSE <<"Unknown", "error">>

C16_PrimaryErrorSurfaced ==
    BothThrew
        => /\ Len(responses) = 1
           /\ responses[1].status = 500
           /\ responses[1].body.error =
                 <<"Failed", "to", "extract", "text", "from", "image">>
           /\ responses[1].body.details =
                 IF LastThrowOf(PRIMARY_MODEL) # Null
                 THEN DetailsOf(LastThrowOf(PRIMARY_MODEL))
                 ELSE DetailsOf(LastThrowOf(FALLBACK_MODEL))

C16_Witness ==
    /\ BothThrew
    /\ CallsOf(PRIMARY_MODEL) = 1
    /\ CallsOf(FALLBACK_MODEL) = 3
    /\ LastThrowOf(FALLBACK_MODEL) = Err(<<"Request", "timed", "out">>)
    /\ responses[1].body.details = <<"The", "model", "does", "not", "exist">>

(* C17: in every success response the confidence is calculateConfidence of  *)
(* the text the response carries, and a success response whose text is      *)
(* exactly "No text detected" has confidence 0.05.                          *)
C17_ConfidenceOfReturnedText ==
    \A i \in DOMAIN responses :
        responses[i].status = 200
            => /\ RatEq(responses[i].body.confidence,
                        calculateConfidence(responses[i].body.text))
               /\ responses[i].body.text = Sentinel
                     => RatEq(responses[i].body.confidence, Rat(5, 100))

(* C18: a backoff wait happens only between two consecutive attempts on the *)
(* same model: a sleep follows a failed attempt k that is not the model's   *)
(* last, lasts 300 ms x k, and is followed by attempt k + 1 on that model.  *)
C18_SleepOnlyBetweenAttempts ==
    \A i \in DOMAIN log :
        IsSleep(log[i])
            => /\ i > 1
               /\ IsThrow(log[i - 1])
               /\ log[i - 1].model = log[i].model
               /\ log[i - 1].attempt = log[i].attempt
               /\ log[i].ms = 300 * log[i].attempt
               /\ log[i].attempt < maxAttempts
               /\ IF i = Len(log)
                  THEN pc = "sleep"
                  ELSE log[i + 1] = CallEvent(log[i].model, log[i].attempt + 1)

(* C19: provided every awaited call settles, every request is eventually    *)
(* answered with one response; all along there are at most 6 model calls,   *)
(* at most 3 per model, every primary call comes before every fallback      *)
(* call, and at most one model call is in flight.                           *)
BoundedSequentialCalls ==
    /\ Len(CallsIn(log)) <= 6
    /\ CallsOf(PRIMARY_MODEL) <= 3
    /\ CallsOf(FALLBACK_MODEL) <= 3
    /\ \A i, j \in DOMAIN log :
          (i < j /\ IsCall(log[i]) /\ IsCall(log[j]) /\ log[j].model = PRIMARY_MODEL)
              => log[i].model = PRIMARY_MODEL
    /\ inflight \in {0, 1}
    /\ inflight = 1 <=> (log # <<>> /\ IsCall(log[Len(log)]))
    /\ pc = "done" => inflight = 0

C19_AnsweredWithinSixCalls ==
    /\ []BoundedSequentialCalls
    /\ (pc = "formData") ~> (pc = "done" /\ Len(responses) = 1)

C19_Witness ==
    /\ pc = "done"
    /\ Len(CallsIn(log)) = 6
    /\ Len(responses) = 1
    /\ responses[1].status = 200
    /\ log[Len(log)] = ReturnEvent(FALLBACK_MODEL, 3, Str(<<"h", "i">>))

(* C15: when the credential of the model service is absent, the request     *)
(* ends with a configuration error that differs from the generic failure    *)
(* response (500, "Failed to extract text from image").                     *)
C15_MissingCredentialIsConfigError ==
    (~credential /\ HasFile /\ pc = "done")
        => /\ Len(responses) = 1
           /\ ~(/\ responses[1].status = 500
                 /\ responses[1].body.error =
                       <<"Failed", "to", "extract", "text", "from", "image">>)

(* C12: for a source image of width W and height H the canvas has larger    *)
(* dimension min(max(W, H), 2000), neither dimension is enlarged, each is   *)
(* the source dimension times the one factor min(max(W, H), 2000) /         *)
(* max(W, H) rounded to the nearest integer, and 4000 x 2000 gives          *)
(* 2000 x 1000.                                                             *)
Abs(x) == IF x < 0 THEN -x ELSE x

C12_CappedSameScale ==
    nOut # Null
        => LET m == Max(nSrc.w, nSrc.h)
               capped == Min(m, 2000)
           IN  /\ Max(nOut.w, nOut.h) = capped
               /\ nOut.w <= nSrc.w
               /\ nOut.h <= nSrc.h
               /\ 2 * Abs(nOut.w * m - nSrc.w * capped) <= m
               /\ 2 * Abs(nOut.h * m - nSrc.h * capped) <= m
               /\ (nSrc.w = 4000 /\ nSrc.h = 2000) => (nOut.w = 2000 /\ nOut.h = 1000)

C12_Witness ==
    /\ nSrc = [w |-> 4000, h |-> 2000]
    /\ nOut = [w |-> 2000, h |-> 1000]

(* C13: an extraction that was started can always move on towards its end:  *)
(* also for a selected image that cannot be decoded, where the normalizer   *)
(* has to fail so that the extraction falls back to the original bytes or   *)
(* aborts, while isProcessing is true some step of the extraction is        *)
(* possible.                                                                *)
C13_StartedExtractionCanEnd == isProcessing => ENABLED Advance

(* C14: when an extraction has ended its timer is cancelled; after a failed *)
(* request the progress is 0 with an empty message, after a successful one  *)
(* it is 100, and while no extraction is in progress only a user action     *)
(* (a selection, a drop, a click on the button) changes the progress.       *)
UserEvents == {"handleFileSelect", "handleDrop", "extractText"}

ProgressAtEnd ==
    /\ \A i \in DOMAIN extractions : extractions[i].at = "ended" => ~extractions[i].t
    /\ lastEvent = "Extraction failed"
          => /\ processingProgress = 0
             /\ progressMessage = ""
             /\ ~isProcessing
    /\ lastEvent = "Extraction complete"
          => /\ processingProgress = 100
             /\ progressMessage = "Completed"
             /\ ~isProcessing

ProgressKept ==
    (~isProcessing /\ lastEvent' \notin UserEvents)
        => UNCHANGED <<processingProgress, progressMessage>>

C14_TimerStopsWithExtraction == []ProgressAtEnd /\ [][ProgressKept]_vars

C14_Witness ==
    /\ lastEvent = "Extraction complete"
    /\ processingProgress = 100
    /\ \E i \in DOMAIN extractions :
          /\ extractions[i].at = "ended"
          /\ extractions[i].idx = 1
          /\ ~extractions[i].t

(* C20: at most one extraction is in flight and at most one timer exists;   *)
(* isProcessing is true exactly while an extraction is in flight; an        *)
(* extraction starts only with a file selected and isProcessing false.      *)
InFlight == {i \in DOMAIN extractions : extractions[i].at # "ended"}

Timers == {i \in DOMAIN extractions : extractions[i].t}

OneInFlight ==
    /\ Cardinality(InFlight) <= 1
    /\ Cardinality(Timers) <= 1
    /\ isProcessing <=> InFlight # {}
    /\ Timers = InFlight

StartsWhenIdle ==
    Len(extractions') > Len(extractions)
        => /\ selectedFile # Null
           /\ ~isProcessing
           /\ isProcessing'

C20_SingleExtraction == []OneInFlight /\ [][StartsWhenIdle]_vars

C20_Witness ==
    /\ Len(extractions) = 2
    /\ extractions[1].at = "ended"
    /\ extractions[2].at = "fetch"
    /\ isProcessing
    /\ Timers = {2}

(* C21: whenever an extraction completes and its text and confidence are    *)
(* displayed, the file that extraction was started for is the file          *)
(* selected at that moment: the result of a file replaced while its         *)
(* request was in flight is never shown under the newly selected file.      *)
ResultOfSelectedFile ==
    \A i \in DOMAIN extractions :
        (/\ extractions[i].at = "json"
         /\ extractions'[i].at = "ended"
         /\ lastEvent' = "Extraction complete")
            => /\ extractions[i].selectedFile = selectedFile'
               /\ extractedText' = extractions[i].res.body.text

C21_ResultBelongsToSelection == [][ResultOfSelectedFile]_vars

====
